---- MODULE Spec2Model ----
(***************************************************************************)
(* Model of pyauparser/lexer.py: the streaming Buffer, the DFA walk of     *)
(* Lexer.peek_token, the position bookkeeping of Lexer._consume_buffer,    *)
(* the lexical-group stack of Lexer.read_token and Lexer.read_token_all.   *)
(*                                                                         *)
(* Input units are represented by their code value (what Buffer.code       *)
(* yields for the unit); None is the value Buffer.peek_char returns at the *)
(* end of the source.  The grammar object (DFA table, symbols, groups) is  *)
(* built outside lexer.py; the tables below are well-formed instances of   *)
(* it: index -2 edges leave accepting states only, index -3 edges leave    *)
(* non-accepting states only, a group's start symbol is never a group end. *)
(***************************************************************************)
EXTENDS Integers, Sequences, FiniteSets, TLC

(* ---- bounds ---- *)
MaxLen == 3
MaxPeeks == 2

(* ---- program constants ---- *)
\* Buffer.fill compacts when buf_cur >= 4096 and reads 4096 units at a time;
\* both are scaled to 2 so that refill and compaction occur on short inputs
COMPACT_AT == 2
READ_SIZE == 2

None == -1
NL == 10
Alphabet == {0, 10, 35, 40, 41, 47, 64, 97}

VARIABLES
    input,        \* the units the source yields, in order (file content)
    is_unicode,   \* Buffer.is_unicode: character mode or byte mode
    cfg,          \* which group table the grammar carries
    fpos,         \* how many units file.read has already delivered
    buf, buf_cur, buf_remain,
    line, column,
    group_stack,  \* frames <<[group, text, position]>>, innermost last
    off,          \* history: number of units committed so far
    frame_off,    \* history: per open frame, the offset of its start delimiter
    last_op,      \* history: the last call made on the lexer
    npeek,        \* history: how many peek_token calls since the last commit
    result,       \* history: what the last call returned
    calls,        \* history: tokens returned by every read_token call so far
    log,          \* history: the loop iterations of read_token in the last call
    commits,      \* history: the _consume_buffer calls of the last call
    fills         \* history: the Buffer.fill calls of the last call

vars == <<input, is_unicode, cfg, fpos, buf, buf_cur, buf_remain, line, column,
          group_stack, off, frame_off, last_op, npeek, result, calls, log,
          commits, fills>>

(* ======================= grammar tables ======================= *)

SymbolType(sym) ==
    CASE sym = "EOF"     -> "END_OF_FILE"
      [] sym = "Error"   -> "ERROR"
      [] sym = "LParen"  -> "GROUP_START"
      [] sym = "Hash"    -> "GROUP_START"
      [] sym = "RParen"  -> "GROUP_END"
      [] sym = "Block"   -> "NOISE"
      [] sym = "Comment" -> "NOISE"
      [] sym = "Space"   -> "NOISE"
      [] OTHER           -> "TERMINAL"

symbol_EOF == "EOF"
symbol_Error == "Error"

NoSymbol == "none"

dfainit == 0

\* accept_symbol of a DFA state (NoSymbol: not accepting); the line-comment
\* start "Hash" is spelled "#" or "//"
accept_symbol(state) ==
    CASE state = 1 -> "Id"
      [] state = 3 -> "Mail"
      [] state = 4 -> "Nul"
      [] state = 5 -> "NewLine"
      [] state = 6 -> "Hash"
      [] state = 7 -> "LParen"
      [] state = 8 -> "RParen"
      [] state = 9 -> "Space"
      [] OTHER     -> NoSymbol

\* edges_lookup of a DFA state: <<r_min, r_max, target_index>> in lookup order
edges_lookup(state) ==
    CASE state = 0 -> << <<0, 0, 4>>, <<10, 10, 5>>, <<32, 32, 9>>,
                         <<35, 35, 6>>, <<40, 40, 7>>, <<41, 41, 8>>,
                         <<47, 47, 10>>, <<97, 122, 1>> >>
      [] state = 1 -> << <<97, 122, -2>>, <<64, 64, 2>> >>
      [] state = 2 -> << <<64, 64, -3>>, <<97, 122, 3>> >>
      [] state = 5 -> << <<0, 10, -2>> >>
      [] state = 9 -> << <<32, 32, 9>> >>
      [] state = 10 -> << <<47, 47, 6>> >>
      [] OTHER     -> << >>

CLOSED == "CLOSED"
OPEN == "OPEN"
TOKEN == "TOKEN"
CHARACTER == "CHARACTER"

GroupNames == {"BlockG", "LineG"}

\* grammar.symbolgroups under the two group tables: a block group closed by
\* ")" (table 1) or by the end of the line (table 2), and a line group
symbolgroups(g) ==
    IF g = "BlockG"
    THEN [start |-> "LParen",
          end |-> IF cfg = 1 THEN "RParen" ELSE "NewLine",
          container |-> "Block",
          nesting_groups |-> {"BlockG", "LineG"},
          ending_mode |-> CLOSED,
          advance_mode |-> IF cfg = 1 THEN TOKEN ELSE CHARACTER]
    ELSE [start |-> "Hash", end |-> "NewLine", container |-> "Comment",
          nesting_groups |-> {},
          ending_mode |-> OPEN,
          advance_mode |-> IF cfg = 1 THEN CHARACTER ELSE TOKEN]

(* ======================= Buffer ======================= *)

Min(a, b) == IF a < b THEN a ELSE b

\* the slice seq[lo:hi] of Python (0-based, clipped)
Slice(seq, lo, hi) == SubSeq(seq, lo + 1, Min(hi, Len(seq)))

\* self.file.read(READ_SIZE) at file position p
file_read(p) == Slice(input, p, p + READ_SIZE)

\* Buffer.fill that keeps the old cursor after compacting
fill_nocur(s) ==
    LET compact == s.buf_cur >= COMPACT_AT
        b1 == IF compact THEN Slice(s.buf, s.buf_cur, Len(s.buf)) ELSE s.buf
        b2 == b1 \o file_read(s.fpos)
    IN  [s EXCEPT !.buf = b2, !.fpos = @ + Len(file_read(s.fpos)),
                  !.buf_remain = Len(b2) - s.buf_cur,
                  !.fills = Append(@, [compact |-> compact,
                                       got |-> Len(file_read(s.fpos))])]

\* Buffer.fill
fill(s) ==
    LET compact == s.buf_cur >= COMPACT_AT
        b1 == IF compact THEN Slice(s.buf, s.buf_cur, Len(s.buf)) ELSE s.buf
        c1 == IF compact THEN 0 ELSE s.buf_cur
        chunk == file_read(s.fpos)
        b2 == b1 \o chunk
    IN  [s EXCEPT !.buf = b2, !.buf_cur = c1, !.fpos = @ + Len(chunk),
                  !.buf_remain = Len(b2) - c1,
                  !.fills = Append(@, [compact |-> compact, got |-> Len(chunk)])]

\* a peek_char that never refills
peek_char_nofill(s, incr) ==
    IF incr < s.buf_remain
    THEN [s |-> s, c |-> s.buf[s.buf_cur + incr + 1]]
    ELSE [s |-> s, c |-> None]

\* Buffer.peek_char: the state after the call and the unit (or None)
peek_char(s, incr) ==
    IF incr < s.buf_remain
    THEN [s |-> s, c |-> s.buf[s.buf_cur + incr + 1]]
    ELSE LET s1 == fill(s)
         IN  IF incr < s1.buf_remain
             THEN [s |-> s1, c |-> s1.buf[s1.buf_cur + incr + 1]]
             ELSE [s |-> s1, c |-> None]

\* Buffer.code: ord(char) in character mode, the byte itself in byte mode;
\* both are the code value that represents the unit here
code(c) == c

\* Buffer.get_data
get_data(s, data_size) == Slice(s.buf, s.buf_cur, s.buf_cur + data_size)

\* buf.find(eol, i, end)
RECURSIVE find_from(_, _, _)
find_from(b, i, end) ==
    IF i >= Min(end, Len(b)) THEN -1
    ELSE IF b[i + 1] = NL THEN i
    ELSE find_from(b, i + 1, end)

\* Buffer.find_eol
find_eol(s, start, size) == find_from(s.buf, start, s.buf_cur + size)

\* a seek_forward that leaves buf_remain alone
seek_forward_cur(s, value) == [s EXCEPT !.buf_cur = @ + value]

\* Buffer.seek_forward
seek_forward(s, value) ==
    [s EXCEPT !.buf_cur = @ + value, !.buf_remain = @ - value]

\* Buffer.reset
reset(s) == [s EXCEPT !.buf = << >>, !.buf_cur = 0, !.buf_remain = 0]

(* ======================= Lexer ======================= *)

Token(symbol, lexeme, pos) ==
    [symbol |-> symbol, lexeme |-> lexeme, position |-> pos]

position(s) == <<s.line, s.column>>

\* the line/column loop with the column counted from 0 after a newline
RECURSIVE eol_loop_col0(_, _, _, _, _)
eol_loop_col0(s, n, start, new_line_i, ln) ==
    LET i == find_eol(s, start, n)
    IN  IF i # -1
        THEN eol_loop_col0(s, n, i + 1, i + 1, ln + 1)
        ELSE [line |-> ln,
              column |-> IF new_line_i = -1
                         THEN s.column + n
                         ELSE s.buf_cur + n - new_line_i]

\* the line/column loop of Lexer._consume_buffer
RECURSIVE eol_loop(_, _, _, _, _)
eol_loop(s, n, start, new_line_i, ln) ==
    LET i == find_eol(s, start, n)
    IN  IF i # -1
        THEN eol_loop(s, n, i + 1, i + 1, ln + 1)
        ELSE [line |-> ln,
              column |-> IF new_line_i = -1
                         THEN s.column + n
                         ELSE 1 + s.buf_cur + n - new_line_i]

\* a _consume_buffer that resets the buffer whatever n is
consume_buffer_reset(s, n) ==
    LET p == eol_loop(s, n, s.buf_cur, -1, s.line)
        s1 == [s EXCEPT !.line = p.line, !.column = p.column]
        entry == [n |-> n, off |-> s.off,
                  line0 |-> s.line, column0 |-> s.column,
                  line1 |-> p.line, column1 |-> p.column,
                  remain0 |-> s.buf_remain, reset |-> TRUE]
    IN  [reset(s1) EXCEPT !.off = @ + n, !.commits = Append(@, entry)]

\* Lexer._consume_buffer; the call is appended to the commit history
consume_buffer(s, n) ==
    LET p == eol_loop(s, n, s.buf_cur, -1, s.line)
        s1 == [s EXCEPT !.line = p.line, !.column = p.column]
        s2 == IF n < s1.buf_remain THEN seek_forward(s1, n) ELSE reset(s1)
        entry == [n |-> n, off |-> s.off,
                  line0 |-> s.line, column0 |-> s.column,
                  line1 |-> p.line, column1 |-> p.column,
                  remain0 |-> s.buf_remain, reset |-> ~(n < s1.buf_remain)]
    IN  [s2 EXCEPT !.off = @ + n, !.commits = Append(@, entry)]

\* the truth value of "not c": None is false, so is the integer 0 that
\* indexing a bytes buffer yields; a one-character str never is
Falsy(c) == c = None \/ (~is_unicode /\ c = 0)

\* the edge scan of peek_token: target_index of the first edge whose range
\* holds c_ord, -1 when there is none
RECURSIVE find_edge(_, _, _)
find_edge(edges, k, c_ord) ==
    IF k > Len(edges) THEN -1
    ELSE IF c_ord >= edges[k][1] /\ c_ord <= edges[k][2] THEN edges[k][3]
    ELSE find_edge(edges, k + 1, c_ord)

\* peek_token on entering next_state: <<hit_symbol, hit_cur>> afterwards
keep_acceptable(next_state, cur, hit_symbol, hit_cur) ==
    IF accept_symbol(next_state) # NoSymbol
    THEN <<accept_symbol(next_state), cur>>
    ELSE <<hit_symbol, hit_cur>>

\* the walk loop of Lexer.peek_token
RECURSIVE walk(_, _, _, _, _)
walk(s, state, cur, hit_symbol, hit_cur) ==
    LET r == peek_char(s, cur)
    IN  IF Falsy(r.c)
        THEN [s |-> r.s, cur |-> cur, hit_symbol |-> hit_symbol, hit_cur |-> hit_cur]
        ELSE LET cur1 == cur + 1
                 next_index == find_edge(edges_lookup(state), 1, code(r.c))
             IN  CASE next_index = -3 ->
                        walk(r.s, state, cur1, hit_symbol, hit_cur)
                   [] next_index = -2 ->
                        walk(r.s, state, cur1, hit_symbol, cur1)
                   [] next_index = -1 ->
                        [s |-> r.s, cur |-> cur1, hit_symbol |-> hit_symbol,
                         hit_cur |-> hit_cur]
                   [] OTHER ->
                        LET h == keep_acceptable(next_index, cur1, hit_symbol, hit_cur)
                        IN  walk(r.s, next_index, cur1, h[1], h[2])

\* peek_token whose Error lexeme is the first unit only
peek_token_one(s) ==
    LET w == walk(s, dfainit, 0, NoSymbol, 0)
    IN  [s |-> w.s,
         tok |-> IF w.hit_symbol # NoSymbol
                 THEN Token(w.hit_symbol, get_data(w.s, w.hit_cur), position(w.s))
                 ELSE IF w.cur = 0
                 THEN Token(symbol_EOF, << >>, position(w.s))
                 ELSE Token(symbol_Error, get_data(w.s, 1), position(w.s))]

\* Lexer.peek_token: the state after the call (buffer refilled) and the token
peek_token(s) ==
    LET w == walk(s, dfainit, 0, NoSymbol, 0)
    IN  [s |-> w.s,
         tok |-> IF w.hit_symbol # NoSymbol
                 THEN Token(w.hit_symbol, get_data(w.s, w.hit_cur), position(w.s))
                 ELSE IF w.cur = 0
                 THEN Token(symbol_EOF, << >>, position(w.s))
                 ELSE Token(symbol_Error, get_data(w.s, w.cur), position(w.s))]

\* the group whose start symbol is sym (read_token, the list comprehension)
group_of(sym) == CHOOSE g \in GroupNames : symbolgroups(g).start = sym

Top(stack) == stack[Len(stack)]
Pop(stack) == SubSeq(stack, 1, Len(stack) - 1)
AddText(stack, text) ==
    [stack EXCEPT ![Len(stack)] = [@ EXCEPT !.text = @ \o text]]

\* a nesting test that lets every group start nest
nest_group_any(stack, token) == SymbolType(token.symbol) = "GROUP_START"

\* read_token: "check if a start of new group"
nest_group(stack, token) ==
    IF SymbolType(token.symbol) = "GROUP_START"
    THEN IF Len(stack) = 0
         THEN TRUE
         ELSE group_of(token.symbol)
                \in symbolgroups(Top(stack).group).nesting_groups
    ELSE FALSE

\* a plain commit of one unit whatever the lexeme
plain_commit_one(token) == 1

\* read_token: what "token in plain" commits
plain_commit(token) == Len(token.lexeme)

\* an "out of nested" test that also takes End-of-Input as the end
out_of_nested_eof(stack, token) ==
    \/ symbolgroups(Top(stack).group).end = token.symbol
    \/ token.symbol = symbol_EOF

\* read_token: the test of "out of nested"
out_of_nested(stack, token) ==
    symbolgroups(Top(stack).group).end = token.symbol

\* an ending test that treats every group as CLOSED
ending_closed_always(group) == TRUE

\* read_token: the popped frame takes the end delimiter
ending_closed(group) == symbolgroups(group).ending_mode = CLOSED

\* an "EOF in nested" test that also returns Error proposals
eof_in_nested_error(token) == token.symbol \in {symbol_EOF, symbol_Error}

\* read_token: the test of "EOF in nested"
eof_in_nested(token) == token.symbol = symbol_EOF

\* an append of the whole lexeme whatever the advance mode
nested_text_token(group, token) == token.lexeme

\* read_token, "token in nested": the text appended to the top frame
nested_text(group, token) ==
    IF symbolgroups(group).advance_mode = TOKEN
    THEN token.lexeme
    ELSE Slice(token.lexeme, 0, 1)

\* a commit of the whole lexeme whatever the advance mode
nested_commit_token(group, token) == Len(token.lexeme)

\* read_token, "token in nested": the number of units committed
nested_commit(group, token) ==
    IF symbolgroups(group).advance_mode = TOKEN
    THEN Len(token.lexeme)
    ELSE 1

\* one entry of the iteration history
Iter(s, token, branch, n, appended, popped) ==
    [tok |-> token, depth |-> Len(s.group_stack), off |-> s.off,
     top |-> IF Len(s.group_stack) = 0 THEN "none" ELSE Top(s.group_stack).group,
     branch |-> branch, n |-> n, appended |-> appended, popped |-> popped]

NoPop == [group |-> "none", text |-> << >>, start_off |-> 0,
          start_lexeme |-> << >>, pop_off |-> 0]

Note(s, entry) == [s EXCEPT !.log = Append(@, entry)]

\* the outcome of one iteration of the loop of read_token: the state, whether
\* the call returns, and the token it returns
Continue(s) == [s |-> s, done |-> FALSE, tok |-> Token(NoSymbol, << >>, <<0, 0>>)]
Return(s, token) == [s |-> s, done |-> TRUE, tok |-> token]

\* read_token, "into nested": the frame pushed after the commit
push_frame(s, token, start_off) ==
    [s EXCEPT !.group_stack = Append(@, [group |-> group_of(token.symbol),
                                         text |-> token.lexeme,
                                         position |-> token.position]),
              !.frame_off = Append(@, [off |-> start_off, lexeme |-> token.lexeme])]

\* read_token, "into nested"
into_nested(s, token) ==
    Continue(Note(push_frame(consume_buffer(s, Len(token.lexeme)), token, s.off),
                  Iter(s, token, "push", Len(token.lexeme),
                       << >>, NoPop)))

\* a "token in plain" that returns an Error token without committing it
token_in_plain_error(s, token) ==
    IF token.symbol = symbol_Error
    THEN Return(Note(consume_buffer(s, 0),
                     Iter(s, token, "plain", 0, << >>, NoPop)),
                token)
    ELSE Return(Note(consume_buffer(s, plain_commit(token)),
                     Iter(s, token, "plain", plain_commit(token),
                          << >>, NoPop)),
                token)

\* read_token, "token in plain"
token_in_plain(s, token) ==
    Return(Note(consume_buffer(s, plain_commit(token)),
                Iter(s, token, "plain", plain_commit(token),
                     << >>, NoPop)),
           token)

\* read_token, "out of nested": the text of the popped frame
popped_text(pop, token) ==
    IF ending_closed(pop.group) THEN pop.text \o token.lexeme ELSE pop.text

\* a pop that commits the end delimiter whatever the ending mode
pop_frame_commit(s, pop, token) ==
    consume_buffer([s EXCEPT !.group_stack = Pop(@), !.frame_off = Pop(@)],
                   Len(token.lexeme))

\* read_token, "out of nested": the frame is gone, the end delimiter committed
\* when the ending mode is CLOSED
pop_frame(s, pop, token) ==
    IF ending_closed(pop.group)
    THEN consume_buffer([s EXCEPT !.group_stack = Pop(@), !.frame_off = Pop(@)],
                        Len(token.lexeme))
    ELSE [s EXCEPT !.group_stack = Pop(@), !.frame_off = Pop(@)]

\* a return of the container with the position at which the group was closed
after_pop_here(s, pop, text) ==
    IF Len(s.group_stack) = 0
    THEN Return(s, Token(symbolgroups(pop.group).container, text, position(s)))
    ELSE Continue([s EXCEPT !.group_stack = AddText(@, text)])

\* read_token, "out of nested": return the container or merge into the parent
after_pop(s, pop, text) ==
    IF Len(s.group_stack) = 0
    THEN Return(s, Token(symbolgroups(pop.group).container, text, pop.position))
    ELSE Continue([s EXCEPT !.group_stack = AddText(@, text)])

\* read_token, "out of nested"
leave_nested(s, token) ==
    after_pop(Note(pop_frame(s, Top(s.group_stack), token),
                   Iter(s, token, "pop",
                        IF ending_closed(Top(s.group_stack).group)
                        THEN Len(token.lexeme) ELSE -1,
                        << >>,
                        [group |-> Top(s.group_stack).group,
                         text |-> popped_text(Top(s.group_stack), token),
                         start_off |-> Top(s.frame_off).off,
                         start_lexeme |-> Top(s.frame_off).lexeme,
                         pop_off |-> s.off])),
              Top(s.group_stack),
              popped_text(Top(s.group_stack), token))

\* read_token, "EOF in nested"
return_eof(s, token) ==
    Return(Note(s, Iter(s, token, "eof", -1, << >>, NoPop)), token)

\* read_token, "token in nested"
token_in_nested(s, token, group) ==
    Continue(Note(consume_buffer([s EXCEPT !.group_stack =
                                     AddText(@, nested_text(group, token))],
                                 nested_commit(group, token)),
                  Iter(s, token, "content",
                       nested_commit(group, token), nested_text(group, token),
                       NoPop)))

\* one iteration of the loop of read_token on the proposal `token`
read_step(s, token) ==
    IF nest_group(s.group_stack, token) THEN into_nested(s, token)
    ELSE IF Len(s.group_stack) = 0 THEN token_in_plain(s, token)
    ELSE IF out_of_nested(s.group_stack, token) THEN leave_nested(s, token)
    ELSE IF eof_in_nested(token) THEN return_eof(s, token)
    ELSE token_in_nested(s, token, Top(s.group_stack).group)

\* one iteration: peek_token, then the branch
peeked_step(pk) == read_step(pk.s, pk.tok)
read_iter(s) == peeked_step(peek_token(s))

\* Lexer.read_token: the state after the call and the returned token
RECURSIVE read_loop(_)
next_iter(r) == IF r.done THEN [s |-> r.s, tok |-> r.tok] ELSE read_loop(r.s)
read_loop(s) == next_iter(read_iter(s))

read_token(s) == read_loop(s)

\* a loop test that ends on END_OF_FILE only
is_last_eof(token) == SymbolType(token.symbol) = "END_OF_FILE"

\* read_token_all: the test that ends the loop
is_last(token) == SymbolType(token.symbol) \in {"END_OF_FILE", "ERROR"}

\* Lexer.read_token_all: the state after the call, the returned list and the
\* token of every read_token call it made
RECURSIVE all_loop(_, _, _)
all_appended(r, ret, made) ==
    IF is_last(r.tok)
    THEN [s |-> r.s, ret |-> ret, made |-> made]
    ELSE all_loop(r.s, ret, made)
all_next(r, ret, made) ==
    all_appended(r, Append(ret, r.tok), Append(made, r.tok))
all_loop(s, ret, made) == all_next(read_token(s), ret, made)

read_token_all(s) == all_loop(s, << >>, << >>)

(* ======================= state machine ======================= *)

\* the lexer's fields as one record, the histories of the call empty
Lx == [buf |-> buf, buf_cur |-> buf_cur, buf_remain |-> buf_remain,
       fpos |-> fpos, line |-> line, column |-> column,
       group_stack |-> group_stack, off |-> off, frame_off |-> frame_off,
       log |-> << >>, commits |-> << >>, fills |-> << >>]

Install(s) ==
    /\ buf' = s.buf
    /\ buf_cur' = s.buf_cur
    /\ buf_remain' = s.buf_remain
    /\ fpos' = s.fpos
    /\ line' = s.line
    /\ column' = s.column
    /\ group_stack' = s.group_stack
    /\ off' = s.off
    /\ frame_off' = s.frame_off
    /\ log' = s.log
    /\ commits' = s.commits
    /\ fills' = s.fills

RECURSIVE SeqsUpTo(_)
SeqsUpTo(n) ==
    IF n = 0 THEN {<< >>}
    ELSE LET prev == SeqsUpTo(n - 1)
         IN  prev \cup {Append(q, a) : q \in {p \in prev : Len(p) = n - 1},
                                       a \in Alphabet}

\* Lexer._load on a source holding `input`: Buffer.__init__/reset, line and
\* column 1, empty group stack
Init ==
    /\ input \in SeqsUpTo(MaxLen)
    /\ is_unicode \in BOOLEAN
    /\ cfg \in {1, 2}
    /\ fpos = 0
    /\ buf = << >>
    /\ buf_cur = 0
    /\ buf_remain = 0
    /\ line = 1
    /\ column = 1
    /\ group_stack = << >>
    /\ off = 0
    /\ frame_off = << >>
    /\ last_op = "load"
    /\ npeek = 0
    /\ result = << >>
    /\ calls = << >>
    /\ log = << >>
    /\ commits = << >>
    /\ fills = << >>

\* read_token_all has returned: the pass over the input is over
Finished == last_op = "read_token_all"

MaxCalls == MaxLen + 2

PeekToken ==
    /\ ~Finished
    /\ npeek < MaxPeeks
    /\ LET r == peek_token(Lx)
       IN  /\ Install(r.s)
           /\ result' = <<r.tok>>
    /\ last_op' = "peek_token"
    /\ npeek' = npeek + 1
    /\ UNCHANGED <<input, is_unicode, cfg, calls>>

ReadToken ==
    /\ ~Finished
    /\ Len(calls) < MaxCalls
    /\ LET r == read_token(Lx)
       IN  /\ Install(r.s)
           /\ result' = <<r.tok>>
           /\ calls' = Append(calls, r.tok)
    /\ last_op' = "read_token"
    /\ npeek' = 0
    /\ UNCHANGED <<input, is_unicode, cfg>>

ReadTokenAll ==
    /\ ~Finished
    /\ LET r == read_token_all(Lx)
       IN  /\ Install(r.s)
           /\ result' = r.ret
           /\ calls' = calls \o r.made
    /\ last_op' = "read_token_all"
    /\ npeek' = 0
    /\ UNCHANGED <<input, is_unicode, cfg>>

Next == PeekToken \/ ReadToken \/ ReadTokenAll

Spec == Init /\ [][Next]_vars

\* the source text "a // hi<newline>b"
ScenarioInput == <<97, 32, 47, 47, 32, 104, 105, 10, 98>>

\* Lexer._load on a source holding a piece of the scenario text
InitScenario ==
    /\ input \in {SubSeq(ScenarioInput, i, j) : i, j \in 1..Len(ScenarioInput)}
    /\ is_unicode \in BOOLEAN
    /\ cfg \in {1, 2}
    /\ fpos = 0
    /\ buf = << >>
    /\ buf_cur = 0
    /\ buf_remain = 0
    /\ line = 1
    /\ column = 1
    /\ group_stack = << >>
    /\ off = 0
    /\ frame_off = << >>
    /\ last_op = "load"
    /\ npeek = 0
    /\ result = << >>
    /\ calls = << >>
    /\ log = << >>
    /\ commits = << >>
    /\ fills = << >>

SpecScenario == InitScenario /\ [][Next]_vars

(* ---- the Buffer driven call by call ---- *)

\* the offsets peek_char is called with: up to past the end of every input
MaxOffset == MaxLen

\* Buffer.fill called on its own
Fill ==
    /\ Install(fill(Lx))
    /\ result' = << >>
    /\ last_op' = "fill"
    /\ UNCHANGED <<input, is_unicode, cfg, npeek, calls>>

\* Buffer.peek_char(incr) called on its own, with any offset
PeekChar ==
    /\ \E incr \in 0..MaxOffset :
          LET r == peek_char(Lx, incr)
          IN  /\ Install(r.s)
              /\ result' = <<[incr |-> incr, c |-> r.c]>>
    /\ last_op' = "peek_char"
    /\ UNCHANGED <<input, is_unicode, cfg, npeek, calls>>

\* Lexer._consume_buffer(n) called on its own with a span that is buffered
ConsumeBuffer ==
    /\ \E n \in 0..buf_remain :
          /\ Install(consume_buffer(Lx, n))
          /\ result' = <<n>>
    /\ last_op' = "consume_buffer"
    /\ UNCHANGED <<input, is_unicode, cfg, npeek, calls>>

NextBuffer == Fill \/ PeekChar \/ ConsumeBuffer

\* the Buffer of a freshly loaded lexer; the group table plays no part
InitBuffer == Init /\ cfg = 1

SpecBuffer == InitBuffer /\ [][NextBuffer]_vars

(* ======================= properties ======================= *)

IsStartType(token) == SymbolType(token.symbol) = "GROUP_START"
IsEndType(token) == SymbolType(token.symbol) \in {"END_OF_FILE", "ERROR"}
Last(seq) == seq[Len(seq)]

\* the units of the input not yet committed
Rest == SubSeq(input, off + 1, Len(input))

\* the lexer right after _load, before any call
Lx0 == [buf |-> << >>, buf_cur |-> 0, buf_remain |-> 0, fpos |-> 0,
        line |-> 1, column |-> 1, group_stack |-> << >>, off |-> 0,
        frame_off |-> << >>, log |-> << >>, commits |-> << >>, fills |-> << >>]

\* k rounds of peek_token followed by a commit of len(lexeme)
RECURSIVE scan_run(_, _)
scan_run(s, k) ==
    IF k = 0 THEN << >>
    ELSE LET p == peek_token(s)
         IN  <<p.tok>> \o scan_run(consume_buffer(p.s, Len(p.tok.lexeme)), k - 1)

\* C1: as long as no proposal of the peek-and-commit run is a group start,
\* the tokens returned by the read_token calls made so far are the tokens of
\* that run (symbol, lexeme, position), and the group stack was empty at
\* every iteration and is empty now.
C1_PlainRefinement ==
    LET ref == scan_run(Lx0, Len(calls))
    IN  (\A i \in 1..Len(ref) : ~IsStartType(ref[i]))
        => /\ calls = ref
           /\ group_stack = << >>
           /\ \A i \in 1..Len(log) : log[i].depth = 0

C1_Witness ==
    /\ last_op = "read_token"
    /\ Len(calls) >= 3
    /\ \A i \in 1..Len(calls) : ~IsStartType(scan_run(Lx0, Len(calls))[i])
    /\ \E i \in 1..Len(calls) : Len(calls[i].lexeme) >= 2

\* the DFA state after the first k units of la: edges with a state index move
\* there, index -2 and -3 edges stay, Dead when a unit has no edge
Dead == -1
RECURSIVE dfa_after(_, _)
dfa_after(la, k) ==
    IF k = 0 THEN dfainit
    ELSE LET q == dfa_after(la, k - 1)
         IN  IF q = Dead THEN Dead
             ELSE LET t == find_edge(edges_lookup(q), 1, la[k])
                  IN  IF t = -1 THEN Dead ELSE IF t < 0 THEN q ELSE t

AcceptingAt(la) ==
    {k \in 1..Len(la) : /\ dfa_after(la, k) # Dead
                        /\ accept_symbol(dfa_after(la, k)) # NoSymbol}

SetMax(S) == CHOOSE k \in S : \A j \in S : j <= k

\* C2: when the walk over the uncommitted input is in an accepting state
\* after some prefix, peek_token returns the longest such prefix with the
\* symbol of the state reached there.
LongestMatch(tok) ==
    LET ks == AcceptingAt(Rest)
    IN  ks # {} => /\ tok.lexeme = SubSeq(Rest, 1, SetMax(ks))
                   /\ tok.symbol = accept_symbol(dfa_after(Rest, SetMax(ks)))

C2_LongestMatch == last_op = "peek_token" => LongestMatch(result[1])

\* the same in character mode, where no unit ends the walk early
LongestMatchChars ==
    (last_op = "peek_token" /\ is_unicode) => LongestMatch(result[1])

\* the units ahead of the committed cursor: buffered ones, then unread ones
Uncommitted ==
    Slice(buf, buf_cur, buf_cur + buf_remain) \o Slice(input, fpos, Len(input))

\* C3: a peek_token call changes neither line, column, the group stack nor
\* the uncommitted input, and returns what the preceding peek_token call
\* returned when no commit came between them.
C3_PeekPure ==
    [][last_op' = "peek_token"
         => /\ line' = line
            /\ column' = column
            /\ group_stack' = group_stack
            /\ Uncommitted' = Uncommitted
            /\ (last_op = "peek_token" => result' = result)]_vars

\* a peek_token call that refilled and compacted the buffer
C3_Witness ==
    /\ last_op = "peek_token"
    /\ \E i \in 1..Len(fills) : fills[i].compact
    /\ Len(result[1].lexeme) >= 1

\* number of newlines in a sequence of units
RECURSIVE count_nl(_)
count_nl(seq) ==
    IF seq = << >> THEN 0
    ELSE (IF seq[1] = NL THEN 1 ELSE 0) + count_nl(Tail(seq))

\* number of units after the last newline of a sequence that has one
RECURSIVE after_last_nl(_)
after_last_nl(seq) ==
    IF Last(seq) = NL THEN 0
    ELSE 1 + after_last_nl(SubSeq(seq, 1, Len(seq) - 1))

CommitOK(e) ==
    LET span == SubSeq(input, e.off + 1, e.off + e.n)
    IN  /\ Len(span) = e.n
        /\ e.line1 >= e.line0
        /\ count_nl(span) = 0 => (e.line1 = e.line0 /\ e.column1 = e.column0 + e.n)
        /\ count_nl(span) > 0 => /\ e.line1 = e.line0 + count_nl(span)
                                 /\ e.column1 = 1 + after_last_nl(span)

\* C4: line never decreases; a commit without a newline keeps line and adds
\* n to column; a commit with newlines adds their number to line and leaves
\* column at 1 plus the number of units after the last newline.
C4_Position ==
    [][/\ line' >= line
       /\ \A i \in 1..Len(commits') : CommitOK(commits'[i])
       /\ commits' # << >> =>
            /\ commits'[1].line0 = line /\ commits'[1].column0 = column
            /\ Last(commits').line1 = line' /\ Last(commits').column1 = column'
            /\ \A i \in 1..(Len(commits') - 1) :
                  /\ commits'[i + 1].line0 = commits'[i].line1
                  /\ commits'[i + 1].column0 = commits'[i].column1]_vars

C4_Witness ==
    \E i \in 1..Len(commits) :
        LET e == commits[i]
            span == SubSeq(input, e.off + 1, e.off + e.n)
        IN  /\ e.n >= 2
            /\ count_nl(span) >= 1
            /\ Last(span) # NL
            /\ e.column0 > 1

\* C5: the text of a container token that read_token returns is the start
\* delimiter's lexeme, then every unit committed while the group was open,
\* then the end delimiter's lexeme exactly when the ending mode is CLOSED.
ContainerOK(e) ==
    LET p == e.popped
        inner == SubSeq(input, p.start_off + Len(p.start_lexeme) + 1, p.pop_off)
    IN  /\ p.start_lexeme = SubSeq(input, p.start_off + 1,
                                   p.start_off + Len(p.start_lexeme))
        /\ p.text = p.start_lexeme \o inner
                      \o (IF symbolgroups(p.group).ending_mode = CLOSED
                          THEN e.tok.lexeme ELSE << >>)

Returned(i) == log[i].branch = "pop" /\ log[i].depth = 1

C5_RoundTrip ==
    /\ \A i \in 1..Len(log) : Returned(i) => ContainerOK(log[i])
    /\ (last_op = "read_token" /\ log # << >> /\ Returned(Len(log)))
         => result[1].lexeme = Last(log).popped.text

C5_Witness ==
    /\ last_op = "read_token"
    /\ log # << >>
    /\ Returned(Len(log))
    /\ \E i \in 1..Len(log) :
          log[i].branch = "pop" /\ log[i].depth = 2 /\ log[i].popped.group = "LineG"
    /\ symbolgroups(Last(log).popped.group).ending_mode = CLOSED

Refused(e) ==
    /\ e.depth > 0
    /\ IsStartType(e.tok)
    /\ group_of(e.tok.symbol) \notin symbolgroups(e.top).nesting_groups

\* C6: a group-start proposal that the top frame does not allow to nest is
\* never pushed: the depth stays and the token goes into the top frame per
\* its advance mode; with an empty stack every group-start proposal is pushed.
C6_NestingPolicy ==
    \A i \in 1..Len(log) :
        LET e == log[i]
            after == IF i < Len(log) THEN log[i + 1].depth ELSE Len(group_stack)
        IN  /\ Refused(e) =>
                /\ e.branch = "content"
                /\ after = e.depth
                /\ IF symbolgroups(e.top).advance_mode = TOKEN
                   THEN e.appended = e.tok.lexeme /\ e.n = Len(e.tok.lexeme)
                   ELSE e.appended = <<e.tok.lexeme[1]>> /\ e.n = 1
            /\ (e.depth = 0 /\ IsStartType(e.tok)) =>
                (e.branch = "push" /\ after = 1)

C6_Witness ==
    /\ \E i \in 1..Len(log) : Refused(log[i])
    /\ \E i \in 1..Len(log) : log[i].depth = 1 /\ log[i].branch = "push"

\* C7: the list read_token_all returns ends with its only END_OF_FILE or
\* ERROR token and holds the tokens of the read_token calls it made, in order.
C7_ReadAll ==
    last_op = "read_token_all" =>
        /\ Len(result) >= 1
        /\ IsEndType(Last(result))
        /\ \A i \in 1..(Len(result) - 1) : ~IsEndType(result[i])
        /\ Len(result) <= Len(calls)
        /\ result = SubSeq(calls, Len(calls) - Len(result) + 1, Len(calls))

C7_Witness ==
    /\ last_op = "read_token_all"
    /\ Len(result) >= 2
    /\ Last(result).symbol = symbol_Error
    /\ Len(calls) > Len(result)

\* read_token has returned the scanner's proposal itself
ReturnedRaw ==
    /\ last_op = "read_token"
    /\ log # << >>
    /\ result[1] = Last(log).tok

\* C8 as stated: a proposal is returned unchanged only with an empty stack.
C8_RawOnlyWhenEmpty == ReturnedRaw => group_stack = << >>

\* C8 as amended: a proposal other than End-of-Input is returned unchanged
\* only with an empty stack; with a non-empty stack the only proposal
\* returned is End-of-Input.
C8_RawOnlyWhenEmptyOrEOF ==
    ReturnedRaw =>
        \/ group_stack = << >> /\ Last(log).depth = 0
        \/ result[1].symbol = symbol_EOF /\ Last(log).depth > 0

C8_Witness ==
    /\ ReturnedRaw
    /\ group_stack = << >>
    /\ result[1].symbol = "Id"
    /\ \E i \in 1..Len(calls) : calls[i].symbol = "Block"

\* C9: when a proposal is made at the end of the input with a frame open,
\* the read_token call returns it at once as End-of-Input with an empty
\* lexeme, pops and commits nothing, and every later call does the same.
AtEndInGroup == off = Len(input) /\ group_stack # << >>

EndInGroup(e) == e.depth > 0 /\ e.off = Len(input)

C9_EofInGroup ==
    [][/\ \A i \in 1..Len(log') :
            EndInGroup(log'[i]) =>
                /\ i = Len(log')
                /\ log'[i].branch = "eof"
                /\ log'[i].tok = Token(symbol_EOF, << >>, <<line', column'>>)
                /\ Last(result') = log'[i].tok
                /\ Len(group_stack') = log'[i].depth
                /\ off' = log'[i].off
       /\ (AtEndInGroup /\ last_op' \in {"read_token", "read_token_all"})
            => /\ result' = <<Token(symbol_EOF, << >>, <<line, column>>)>>
               /\ Len(log') = 1
               /\ commits' = << >>
               /\ group_stack' = group_stack
               /\ off' = off /\ line' = line /\ column' = column
               /\ AtEndInGroup']_vars

C9_Witness ==
    /\ AtEndInGroup
    /\ last_op = "read_token"
    /\ Len(group_stack) = 2
    /\ Len(calls) >= 3
    /\ calls[Len(calls)].symbol = symbol_EOF
    /\ calls[Len(calls) - 1].symbol = symbol_EOF

\* C10: peek_token proposes End-of-Input exactly when no unit is left at the
\* committed cursor, in character mode and in byte mode.
C10_EofIffNoInput ==
    last_op = "peek_token" =>
        ((result[1].symbol = symbol_EOF) <=> (Rest = << >>))

\* the lookahead as the walk reads it: the uncommitted units up to the first
\* one that the walk takes for the end of the input
RECURSIVE read_prefix(_)
read_prefix(la) ==
    IF la = << >> \/ Falsy(la[1]) THEN << >>
    ELSE <<la[1]>> \o read_prefix(Tail(la))

Seen == read_prefix(Rest)

\* the number of units the walk reads of la: up to and including the first
\* unit without an edge, all of la when there is none
WalkStop(la) ==
    IF \E k \in 1..Len(la) : dfa_after(la, k) = Dead
    THEN CHOOSE k \in 1..Len(la) :
            /\ dfa_after(la, k) = Dead
            /\ \A j \in 1..(k - 1) : dfa_after(la, j) # Dead
    ELSE Len(la)

\* the walk reads at least one unit and is never in an accepting state
NoAccept == Seen # << >> /\ AcceptingAt(Seen) = {}

ErrorToken == Token(symbol_Error, SubSeq(Seen, 1, WalkStop(Seen)), <<line, column>>)

\* C11: when the walk reads at least one unit and never reaches an accepting
\* state, peek_token returns Error with exactly the units read, the unit
\* without an edge included; with an empty stack read_token commits that
\* lexeme and returns the token, and read_token_all ends its list with it.
C11_ErrorToken ==
    [][/\ NoAccept =>
            /\ WalkStop(Seen) >= 1
            /\ last_op' = "peek_token" => result' = <<ErrorToken>>
            /\ (group_stack = << >> /\ last_op' \in {"read_token", "read_token_all"})
                 => /\ result' = <<ErrorToken>>
                    /\ off' = off + Len(ErrorToken.lexeme)
                    /\ group_stack' = << >>
       /\ \A i \in 1..Len(log') :
            (log'[i].depth = 0 /\ log'[i].tok.symbol = symbol_Error) =>
                /\ i = Len(log')
                /\ log'[i].branch = "plain"
                /\ log'[i].n = Len(log'[i].tok.lexeme)
                /\ log'[i].n >= 1
                /\ Last(result') = log'[i].tok
                /\ off' = log'[i].off + log'[i].n]_vars

\* read_token_all has ended its list with a two-unit Error token whose
\* last unit is the one without an edge
C11_Witness ==
    /\ last_op = "read_token_all"
    /\ Len(result) >= 2
    /\ Last(result).symbol = symbol_Error
    /\ Len(Last(result).lexeme) = 2
    /\ dfa_after(Last(result).lexeme, 2) = Dead
    /\ off = Len(input)
    /\ group_stack = << >>

\* the symbols and lexemes of a token list
Shown(toks) == [i \in 1..Len(toks) |-> <<toks[i].symbol, toks[i].lexeme>>]

\* read_token_all has run over the whole scenario text under the group table
\* whose line comment has OPEN ending and CHARACTER advance
ScenarioRead ==
    /\ last_op = "read_token_all"
    /\ input = ScenarioInput
    /\ cfg = 1
    /\ Len(calls) = Len(result)

\* C12 as stated: read_token_all on "a // hi<newline>b" returns exactly
\* Identifier("a"), Comment("// hi"), Identifier("b"), EndOfInput.
C12_ScenarioFour ==
    ScenarioRead =>
        Shown(result) = << <<"Id", <<97>> >>,
                           <<"Comment", <<47, 47, 32, 104, 105>> >>,
                           <<"Id", <<98>> >>,
                           <<symbol_EOF, << >> >> >>

\* C12 as amended: the whitespace token before the comment and the newline
\* token the comment left uncommitted are returned as well.
C12_ScenarioSix ==
    ScenarioRead =>
        /\ Shown(result) = << <<"Id", <<97>> >>,
                              <<"Space", <<32>> >>,
                              <<"Comment", <<47, 47, 32, 104, 105>> >>,
                              <<"NewLine", <<NL>> >>,
                              <<"Id", <<98>> >>,
                              <<symbol_EOF, << >> >> >>
        /\ result[3].position = <<1, 3>>
        /\ result[4].position = <<1, 8>>
        /\ result[5].position = <<2, 1>>

C12_Witness == ScenarioRead /\ Len(result) = 6

\* an iteration that pops a frame whose ending mode is OPEN
OpenPop(e) ==
    e.branch = "pop" /\ symbolgroups(e.popped.group).ending_mode = OPEN

\* the iterations that made a commit
Committing(lg) == {i \in 1..Len(lg) : lg[i].n # -1}

\* C13: popping a frame with OPEN ending commits and appends nothing: the
\* committed offset, line and column stay, the popped text ends right
\* before the end delimiter, and the next proposal (of the same loop when a
\* parent remains, of the next read_token call otherwise) is that same
\* end-delimiter token.
C13_ExclusiveEnd ==
    [][/\ Cardinality(Committing(log')) = Len(commits')
       /\ \A i \in 1..Len(log') :
            OpenPop(log'[i]) =>
                LET e == log'[i]
                IN  /\ e.n = -1
                    /\ e.appended = << >>
                    /\ e.tok.symbol = symbolgroups(e.popped.group).end
                    /\ e.popped.text = SubSeq(input, e.popped.start_off + 1, e.off)
                    /\ e.tok.lexeme =
                          SubSeq(input, e.off + 1, e.off + Len(e.tok.lexeme))
                    /\ IF i < Len(log')
                       THEN /\ log'[i + 1].off = e.off
                            /\ log'[i + 1].tok = e.tok
                            /\ log'[i + 1].depth = e.depth - 1
                       ELSE /\ off' = e.off
                            /\ <<line', column'>> = e.tok.position
                            /\ Len(group_stack') = e.depth - 1
                            /\ SubSeq(Uncommitted', 1, Len(e.tok.lexeme)) = e.tok.lexeme
       /\ (last_op = "read_token" /\ log # << >> /\ OpenPop(Last(log))) =>
            /\ last_op' = "peek_token" => result' = <<Last(log).tok>>
            /\ last_op' \in {"read_token", "read_token_all"}
                 => log'[1].tok = Last(log).tok]_vars

\* a frame with OPEN ending was popped inside a parent frame, and the parent
\* got the same end delimiter proposed
C13_Witness ==
    \E i \in 1..Len(log) :
        /\ OpenPop(log[i])
        /\ log[i].depth = 2
        /\ i < Len(log)
        /\ log[i + 1].branch = "pop"

\* the unit of the source at `incr` past the committed cursor, None when
\* the source ends before it
UnitAt(incr) ==
    IF off + incr < Len(input) THEN input[off + incr + 1] ELSE None

\* C14 as stated: peek_char(offset) returns the unit at cursor + offset when
\* the source holds one and None only when it does not, for every offset.
C14_PeekCharAny ==
    last_op = "peek_char" => result[1].c = UnitAt(result[1].incr)

\* C14 as amended: it does so for offsets less than one read past the
\* buffered data; for larger offsets it returns None.
C14_PeekCharNear ==
    [][last_op' = "peek_char" =>
         /\ off' = off
         /\ Uncommitted' = Uncommitted
         /\ result'[1].incr < buf_remain + READ_SIZE
              => result'[1].c = UnitAt(result'[1].incr)
         /\ result'[1].incr >= buf_remain + READ_SIZE
              => result'[1].c = None]_vars

\* peek_char past the buffered data has refilled after a commit and returned
\* a unit
C14_Witness ==
    /\ last_op = "peek_char"
    /\ fills # << >>
    /\ off >= 1
    /\ result[1].incr >= 1
    /\ result[1].c # None

\* C15: in every state of a session, whatever fill, peek_char, seek_forward,
\* reset and _consume_buffer steps led to it, 0 <= buf_cur, 0 <= buf_remain
\* and buf_cur + buf_remain <= len(buf).
C15_BufferBounds ==
    /\ 0 <= buf_cur
    /\ 0 <= buf_remain
    /\ buf_cur + buf_remain <= Len(buf)

\* a fill has compacted the buffer after a seek_forward and left data in it
C15_Witness ==
    /\ last_op = "fill"
    /\ fills[1].compact
    /\ off >= COMPACT_AT
    /\ buf_remain >= 1

\* a commit takes the reset path only with n = buf_remain
ResetOK(e) == e.n <= e.remain0 /\ (e.reset => e.n = e.remain0)

\* the units ahead of the buffer cursor and in the source are the input after
\* the committed offset: no commit has dropped a unit it did not cover
NothingDiscarded == Uncommitted = Rest

\* C16 as stated: every commit of read_token has 1 <= n <= buf_remain, takes
\* the reset path only when n = buf_remain, and discards no buffered unit
\* outside the committed span.
C16_CommitAtLeastOne ==
    /\ \A i \in 1..Len(commits) : commits[i].n >= 1 /\ ResetOK(commits[i])
    /\ NothingDiscarded

\* C16 as amended: 0 <= n <= buf_remain, with n = 0 exactly for the commit of
\* an End-of-Input token returned with an empty stack.
C16_CommitInBuffer ==
    /\ \A i \in 1..Len(commits) : commits[i].n >= 0 /\ ResetOK(commits[i])
    /\ \A i \in 1..Len(log) :
          /\ log[i].n = 0 <=> (log[i].branch = "plain"
                                /\ log[i].tok.symbol = symbol_EOF)
          /\ log[i].n # -1 => log[i].n <= Len(log[i].tok.lexeme)
    /\ Cardinality(Committing(log)) = Len(commits)
    /\ NothingDiscarded

\* one call has made a commit on the seek_forward path and a commit of two
\* units or more on the reset path
C16_Witness ==
    /\ last_op \in {"read_token", "read_token_all"}
    /\ \E i, j \in 1..Len(commits) :
          /\ ~commits[i].reset /\ commits[i].n >= 1
          /\ commits[j].reset /\ commits[j].n >= 2

\* the source position of the unit at offset o (0-based): line 1 + newlines
\* before it, column 1 + units since the last of them
TruePos(o) ==
    LET before == SubSeq(input, 1, o)
    IN  <<1 + count_nl(before),
          1 + (IF count_nl(before) = 0 THEN o ELSE after_last_nl(before))>>

\* the iterations at which a read_token call returned
Returning(lg) ==
    {i \in 1..Len(lg) : \/ lg[i].branch \in {"plain", "eof"}
                         \/ (lg[i].branch = "pop" /\ lg[i].depth = 1)}

\* the token returned at the returning iteration i of the log
ReturnedAt(i) ==
    calls[Len(calls) - Cardinality(Returning(log))
          + Cardinality({j \in Returning(log) : j <= i})]

\* the offset at which the token returned at iteration i starts
StartOff(e) == IF e.branch = "pop" THEN e.popped.start_off ELSE e.off

\* C17: every token read_token returns carries the source position of its
\* first unit; for a container token that is the position of the start
\* delimiter of its group.
C17_TruePosition ==
    /\ \A i \in 1..Len(log) : log[i].tok.position = TruePos(log[i].off)
    /\ Cardinality(Returning(log)) <= Len(calls)
    /\ \A i \in Returning(log) :
          LET t == ReturnedAt(i)
              start == StartOff(log[i])
          IN  /\ t.position = TruePos(start)
              /\ t.lexeme = SubSeq(input, start + 1, start + Len(t.lexeme))
              /\ log[i].branch = "pop" =>
                    /\ t.symbol = symbolgroups(log[i].popped.group).container
                    /\ log[i].popped.start_lexeme =
                          SubSeq(input, start + 1,
                                 start + Len(log[i].popped.start_lexeme))
                    /\ start < log[i].off
    /\ <<line, column>> = TruePos(off)

\* a container token that starts after a newline and was closed on a later
\* line has been returned
C17_Witness ==
    /\ last_op = "read_token"
    /\ log # << >>
    /\ Last(log).branch = "pop"
    /\ Last(log).depth = 1
    /\ Last(log).popped.start_off >= 1
    /\ result[1].position[1] >= 2
    /\ line > result[1].position[1]

\* the committed offset and the stack depth after iteration i of the log
OffAfter(i) == IF i < Len(log) THEN log[i + 1].off ELSE off
DepthAfter(i) == IF i < Len(log) THEN log[i + 1].depth ELSE Len(group_stack)

\* the first iteration of the read_token call that returned at iteration i
CallStart(i) ==
    LET earlier == {j \in Returning(log) : j < i}
    IN  IF earlier = {} THEN 1 ELSE 1 + SetMax(earlier)

\* C18: every iteration of the loop of read_token returns, commits at least
\* one unit, or pops a frame without pushing one; every returned token other
\* than End-of-Input has committed at least one unit in its call; hence the
\* number of iterations of a call and the length of the list of
\* read_token_all are bounded by the units left and the frames open.
C18_Progress ==
    /\ \A i \in 1..Len(log) :
          \/ i \in Returning(log)
          \/ log[i].n >= 1 /\ OffAfter(i) = log[i].off + log[i].n
          \/ log[i].branch = "pop" /\ DepthAfter(i) = log[i].depth - 1
    /\ \A i \in Returning(log) :
          ReturnedAt(i).symbol # symbol_EOF
            => /\ OffAfter(i) > log[CallStart(i)].off
               /\ DepthAfter(i) = 0
    /\ log # << >> =>
          /\ Len(log) \in Returning(log)
          /\ Len(log) <= 2 * (Len(input) - log[1].off) + log[1].depth + 1
          /\ off <= Len(input)
    /\ last_op = "read_token" => Cardinality(Returning(log)) = 1
    /\ last_op = "read_token_all" =>
          /\ Cardinality(Returning(log)) = Len(result)
          /\ Len(result) <= Len(input) - log[1].off + 1

\* a read_token call has returned after a push, a content iteration and a
\* pop that committed nothing
C18_Witness ==
    /\ last_op = "read_token"
    /\ Len(log) >= 3
    /\ log[1].branch = "push"
    /\ \E j \in 1..Len(log) : log[j].branch = "content"
    /\ OpenPop(Last(log))
    /\ off < Len(input)

\* an Error proposal made while a frame is open
ErrorInGroup(e) == e.depth > 0 /\ e.tok.symbol = symbol_Error

\* C19: an Error proposal made with a non-empty stack is group content,
\* appended to the top frame and committed per its advance mode, and is not
\* returned; read_token returns an Error token only with an empty stack.
C19_ErrorInGroup ==
    /\ \A i \in 1..Len(log) :
          ErrorInGroup(log[i]) =>
              /\ log[i].branch = "content"
              /\ i \notin Returning(log)
              /\ DepthAfter(i) = log[i].depth
              /\ OffAfter(i) = log[i].off + log[i].n
              /\ IF symbolgroups(log[i].top).advance_mode = TOKEN
                 THEN /\ log[i].appended = log[i].tok.lexeme
                      /\ log[i].n = Len(log[i].tok.lexeme)
                 ELSE /\ log[i].appended = <<log[i].tok.lexeme[1]>>
                      /\ log[i].n = 1
    /\ \A i \in Returning(log) :
          ReturnedAt(i).symbol = symbol_Error =>
              /\ log[i].depth = 0
              /\ log[i].branch = "plain"
              /\ DepthAfter(i) = 0
    /\ (last_op \in {"read_token", "read_token_all"}
          /\ Last(result).symbol = symbol_Error)
         => group_stack = << >> /\ Last(log).depth = 0

\* a two-unit Error proposal was made inside a group with CHARACTER advance
C19_Witness ==
    \E i \in 1..Len(log) :
        /\ ErrorInGroup(log[i])
        /\ Len(log[i].tok.lexeme) = 2
        /\ symbolgroups(log[i].top).advance_mode = CHARACTER

\* the concatenation of the lexemes of a token list
RECURSIVE Concat(_)
Concat(toks) ==
    IF toks = << >> THEN << >>
    ELSE toks[1].lexeme \o Concat(Tail(toks))

\* the read_token calls made so far end at the first End-of-Input or Error
\* token, if there is one, and have closed every group they opened
ClosedSession ==
    /\ calls # << >>
    /\ group_stack = << >>
    /\ \A i \in 1..(Len(calls) - 1) : ~IsEndType(calls[i])

\* C20: in a session that closes every group it opens, the lexemes of the
\* tokens returned by the successive read_token calls, up to and including
\* the first End-of-Input or Error token, concatenate to the committed
\* prefix of the input, which is the whole input when the last token is
\* End-of-Input.
C20_NoUnitLost ==
    ClosedSession =>
        /\ Concat(calls) = SubSeq(input, 1, off)
        /\ Last(calls).symbol = symbol_EOF => off = Len(input)

\* the same in character mode, where no unit is taken for the end of input
NoUnitLostChars == is_unicode => C20_NoUnitLost

====
